---- MODULE Spec2Model ----
(***************************************************************************)
(* The MIDI output router of the React MIDI player: the instrument cache   *)
(* (loadInstrument), the channel table (programChange), the note handlers  *)
(* (playNote / stopNote), the event switch (midiEventHandler) and the      *)
(* transport handlers, for the two component variants that carry the       *)
(* router:                                                                 *)
(*   "MPC"  src/src/MidiPlayerComponent.jsx                                *)
(*   "HQ"   the MidiPlayerComponent of src/src/HighQualityMidiPlayer.jsx   *)
(* Every asynchronous activation (one call of the async playNote,          *)
(* programChange or the initial preload) is a task; its await points are   *)
(* the task's pc, so that activations interleave as the event loop lets    *)
(* them.                                                                   *)
(***************************************************************************)
EXTENDS Integers, Sequences, FiniteSets, TLC

\* ---------------------------------------------------------------- bounds
\* Asynchronous activations created in one behaviour of the router
\* (RouterSpec) and of the whole component (Spec).
MaxTasks == 3
MaxSessionTasks == 2
\* Files selected (each successful load creates one MidiPlayer.Player).
MaxFiles == 2
\* Play clicks whose audio-context resume is still pending.
MaxPlayPending == 1
MaxPlayRequests == 2
MaxUrls == 4
\* Program numbers handed to getInstrumentName on its own: the table's range
\* 0..127 and this many integers on either side of it.
MaxProgramMargin == 36

\* ------------------------------------------------------ program constants
\* createSoundfontOutput initialises the channels 0 .. NumChannels-1.
NumChannels == 16
\* gain = velocity / GainDivisor
GainDivisor == 127

Variants == {"MPC", "HQ"}
\* The channel table is also kept by the older component of
\* src/unnamed/part_000 (lines 1-569), variant "P0".
TableVariants == Variants \cup {"P0"}
\* Channel numbers events carry: two initialised ones (9 is the GM
\* percussion channel) and one outside 0..15, which createSoundfontOutput
\* never initialises (midi-player-js numbers channels from 1 to 16).
ModelChannels == {0, 16}
NoteNames == {"C4"}
Velocities == {0, 100}
\* Program numbers events carry: violin, and one out of range (the default).
Programs == {40, 128}
\* Channel numbers of the channel table specification: ModelChannels and 9.
TableChannels == ModelChannels \cup {9}

\* -------------------------------------------------- GM instrument mapping
gmInstruments ==
    <<
       "acoustic_grand_piano", "bright_acoustic_piano", "electric_grand_piano", "honkytonk_piano",
       "electric_piano_1", "electric_piano_2", "harpsichord", "clavinet",
       "celesta", "glockenspiel", "music_box", "vibraphone",
       "marimba", "xylophone", "tubular_bells", "dulcimer",
       "drawbar_organ", "percussive_organ", "rock_organ", "church_organ",
       "reed_organ", "accordion", "harmonica", "tango_accordion",
       "acoustic_guitar_nylon", "acoustic_guitar_steel", "electric_guitar_jazz", "electric_guitar_clean",
       "electric_guitar_muted", "overdriven_guitar", "distortion_guitar", "guitar_harmonics",
       "acoustic_bass", "electric_bass_finger", "electric_bass_pick", "fretless_bass",
       "slap_bass_1", "slap_bass_2", "synth_bass_1", "synth_bass_2",
       "violin", "viola", "cello", "contrabass",
       "tremolo_strings", "pizzicato_strings", "orchestral_harp", "timpani",
       "string_ensemble_1", "string_ensemble_2", "synth_strings_1", "synth_strings_2",
       "choir_aahs", "voice_oohs", "synth_choir", "orchestra_hit",
       "trumpet", "trombone", "tuba", "muted_trumpet",
       "french_horn", "brass_section", "synth_brass_1", "synth_brass_2",
       "soprano_sax", "alto_sax", "tenor_sax", "baritone_sax",
       "oboe", "english_horn", "bassoon", "clarinet",
       "piccolo", "flute", "recorder", "pan_flute",
       "blown_bottle", "shakuhachi", "whistle", "ocarina",
       "lead_1_square", "lead_2_sawtooth", "lead_3_calliope", "lead_4_chiff",
       "lead_5_charang", "lead_6_voice", "lead_7_fifths", "lead_8_bass_lead",
       "pad_1_new_age", "pad_2_warm", "pad_3_polysynth", "pad_4_choir",
       "pad_5_bowed", "pad_6_metallic", "pad_7_halo", "pad_8_sweep",
       "fx_1_rain", "fx_2_soundtrack", "fx_3_crystal", "fx_4_atmosphere",
       "fx_5_brightness", "fx_6_goblins", "fx_7_echoes", "fx_8_sci_fi",
       "sitar", "banjo", "shamisen", "koto",
       "kalimba", "bagpipe", "fiddle", "shanai",
       "tinkle_bell", "agogo", "steel_drums", "woodblock",
       "taiko_drum", "melodic_tom", "synth_drum", "reverse_cymbal",
       "guitar_fret_noise", "breath_noise", "seashore", "bird_tweet",
       "telephone_ring", "helicopter", "applause", "gunshot"
    >>

\* A getInstrumentName that reads the table from position one.
getInstrumentNameOneBased(programNumber) ==
    IF programNumber \in 1..Len(gmInstruments)
    THEN gmInstruments[programNumber]
    ELSE "acoustic_grand_piano"

\* A getInstrumentName that clamps the program number into the table.
getInstrumentNameClamped(programNumber) ==
    IF programNumber < 0
    THEN gmInstruments[1]
    ELSE IF programNumber > Len(gmInstruments) - 1
         THEN gmInstruments[Len(gmInstruments)]
         ELSE gmInstruments[programNumber + 1]

\* gmInstruments[programNumber] || "acoustic_grand_piano"
getInstrumentName(programNumber) ==
    IF programNumber \in 0..(Len(gmInstruments) - 1)
    THEN gmInstruments[programNumber + 1]
    ELSE "acoustic_grand_piano"

Piano == getInstrumentName(0)
Identities == {getInstrumentName(p) : p \in Programs}

\* ------------------------------------------------------------------ state
VARIABLES
    variant,               \* which component variant runs (fixed by Init)
    instrumentsRef,        \* instrument cache: identity -> handle
    channelInstrumentsRef, \* channel table: channel -> identity
    activeNotesRef,        \* active notes: <<channel, noteName>> -> playing node
    soundfontOutputRef,    \* TRUE when the soundfont output object is installed
    midiFile,              \* the selected file (0: none)
    files,                 \* files selected so far
    player,                \* React state player (0: null)
    isPlaying,             \* React state isPlaying
    isLoading,             \* React state isLoading
    error,                 \* React state error: "" or "error" (some message is shown)
    running,               \* the MidiPlayer.Player instances whose clock runs
    loadPc,                \* the file load: "idle", "reading" or "settling"
    playPending,           \* handlePlay activations awaiting resumeAudioContext
    tasks,                 \* the asynchronous activations, in creation order
    taskLimit,             \* bound: activations created in one behaviour
    playLimit,             \* bound: handlePlay calls suspended at one time
    isReady,               \* React state isReady of HighQualityMidiPlayer
    stopCalls,             \* playing nodes that received stop()
    transport,             \* history: the last transport operation
    lastProgram,           \* history: channel -> identity of the session's last Program Change
    lookup                 \* one call of getInstrumentName: its argument and its result

vars ==
    << variant, instrumentsRef, channelInstrumentsRef, activeNotesRef,
       soundfontOutputRef, midiFile, files, player, isPlaying, isLoading, error,
       running, loadPc, playPending, tasks,
       taskLimit, playLimit, isReady, stopCalls, transport,
       lastProgram, lookup >>

\* A handle is the Soundfont.Player one loader call resolved with: id is the
\* activation whose loader call created it, inst the sample set it holds.
NoHandle == [id |-> 0, inst |-> "none"]
NoLookup == [programNumber |-> 0, instrumentName |-> "none"]
Keys == ModelChannels \X NoteNames
TaskIds == 1..Len(tasks)

NoTaskFields ==
    [channel |-> -1, noteName |-> "", velocity |-> 0, handle |-> NoHandle,
     played |-> "no", playedOn |-> NoHandle, failed |-> FALSE, threw |-> FALSE,
     assigned |-> "", program |-> "none", tornDown |-> FALSE, loaderCalls |-> 0,
     gain |-> << 0, 1 >>]

\* A task is pending while one of its await points is outstanding.
Pending(t) == tasks[t].pc \in {"resume", "loading", "fallback", "hit"}
PendingTasks == {t \in TaskIds : Pending(t)}

\* The loader calls (Soundfont.instrument) in flight for an identity.
InFlight(name) ==
    {t \in TaskIds : \/ tasks[t].pc = "loading" /\ tasks[t].name = name
                     \/ tasks[t].pc = "fallback" /\ name = Piano}

Init ==
    /\ variant \in Variants
    /\ instrumentsRef = [i \in Identities |-> NoHandle]
    /\ channelInstrumentsRef = [c \in ModelChannels |-> "undefined"]
    /\ activeNotesRef = [k \in Keys |-> 0]
    /\ soundfontOutputRef = FALSE
    /\ midiFile = 0
    /\ files = 0
    /\ player = 0
    /\ isPlaying = FALSE
    /\ isLoading = FALSE
    /\ error = ""
    /\ running = {}
    /\ loadPc = "idle"
    /\ playPending = << >>
    /\ tasks = << >>
    /\ taskLimit = MaxSessionTasks
    /\ playLimit = MaxPlayPending
    /\ isReady = FALSE
    /\ stopCalls = {}
    /\ transport = "idle"
    /\ lastProgram = [c \in ModelChannels |-> "none"]
    /\ lookup = NoLookup

\* ------------------------------------------------------- instrument cache
\* loadInstrument up to its first await: the cache check. A hit returns the
\* cached handle (the caller resumes in a later microtask); a miss suspends
\* on resumeAudioContext before it calls the loader.
\* A loadInstrument without the cache check: every call goes to the loader.
loadInstrumentNoCache(kind, instrumentName, fields) ==
    [kind |-> kind, name |-> instrumentName, pc |-> "resume",
     hit |-> instrumentsRef[instrumentName] # NoHandle,
     started |-> PendingTasks, file |-> midiFile] @@ fields

loadInstrument(kind, instrumentName, fields) ==
    LET hit == instrumentsRef[instrumentName] # NoHandle
    IN  [kind |-> kind, name |-> instrumentName,
         pc |-> IF hit THEN "hit" ELSE "resume",
         hit |-> hit,
         started |-> PendingTasks,
         file |-> midiFile]
        @@ [fields EXCEPT !.handle = IF hit THEN instrumentsRef[instrumentName]
                                     ELSE NoHandle]

\* A preload (programChange, createSoundfontOutput) does nothing with the
\* handle: on a cache hit its activation ends without any effect.
Preload(kind, instrumentName, fields) ==
    IF instrumentsRef[instrumentName] # NoHandle
    THEN tasks
    ELSE Append(tasks, loadInstrument(kind, instrumentName, fields))

CanPreload(instrumentName) ==
    instrumentsRef[instrumentName] # NoHandle \/ Len(tasks) < taskLimit

\* ------------------------------------------------------------ the output
\* createSoundfontOutput: every channel 0..15 is set to the default identity
\* (P0: i === 9 ? "percussion" : "acoustic_grand_piano"); the other entries
\* of the object are not touched.
createSoundfontOutput ==
    [c \in DOMAIN channelInstrumentsRef |->
        IF c < NumChannels
        THEN IF variant = "P0" /\ c = 9 THEN "percussion" ELSE getInstrumentName(0)
        ELSE channelInstrumentsRef[c]]

\* playNote: channelInstrumentsRef.current[channel] || getInstrumentName(0)
playNoteInstrumentName(channel) ==
    IF channelInstrumentsRef[channel] = "undefined"
    THEN getInstrumentName(0)
    ELSE channelInstrumentsRef[channel]

\* A programChange that stores the assignment only once the instrument is in
\* the cache (the store moved behind the awaited preload).
programChangeAfterPreload(channel, program) ==
    IF instrumentsRef[getInstrumentName(program)] # NoHandle
    THEN [channelInstrumentsRef EXCEPT ![channel] = getInstrumentName(program)]
    ELSE channelInstrumentsRef

\* programChange: channelInstrumentsRef.current[channel] = getInstrumentName(program)
\* (P0: if (channel === 9) return; comes first).
programChange(channel, program) ==
    IF variant = "P0" /\ channel = 9
    THEN channelInstrumentsRef
    ELSE [channelInstrumentsRef EXCEPT ![channel] = getInstrumentName(program)]

\* The channel table the player's event callback leaves for a Program Change
\* event: midiEventHandler calls programChange; the callback of P0 routes
\* only "Note on" to the output and never calls its programChange.
playerProgramChange(channel, program) ==
    IF variant = "P0"
    THEN channelInstrumentsRef
    ELSE programChange(channel, program)

\* playNote after instrument.play returned the playing node: the MPC variant
\* keeps no record of it, the HQ variant stores it under `${channel}-${noteName}`.
playNoteMPC(t) == activeNotesRef

playNoteHQ(t) ==
    [activeNotesRef EXCEPT ![<<tasks[t].channel, tasks[t].noteName>>] = t]

\* stopNote: stops and deletes the entry of the pair when there is one.
\* No event is routed to it in either variant.
stopNote(noteName, channel) ==
    IF activeNotesRef[<<channel, noteName>>] # 0
    THEN [notes |-> [activeNotesRef EXCEPT ![<<channel, noteName>>] = 0],
          stops |-> stopCalls \cup {activeNotesRef[<<channel, noteName>>]}]
    ELSE [notes |-> activeNotesRef, stops |-> stopCalls]

\* A playNote that looks the channel's instrument up again after the await.
playNoteInstrumentLate(t, h) ==
    IF playNoteInstrumentName(tasks[t].channel) = tasks[t].name
    THEN h
    ELSE instrumentsRef[playNoteInstrumentName(tasks[t].channel)]

\* playNote: const instrument = await loadInstrument(instrumentName), then
\* instrument.play(...): the note sounds on the handle the await returned.
playNoteInstrument(t, h) == h

\* A playNote that passes no gain: every note sounds at full gain.
GainNumeratorFull(velocity) == GainDivisor

\* gain = velocity / 127, kept as the fraction's numerator over GainDivisor.
GainNumerator(velocity) == velocity

\* ------------------------------------------------ the activations' steps
\* A playNote that writes the registry entry before it calls instrument.play.
ReturnedRegistersFirst(t, h, ok, failed) ==
    LET isNote == tasks[t].kind = "note"
    IN  /\ tasks' = [tasks EXCEPT ![t].pc = "done",
                                  ![t].handle = h,
                                  ![t].failed = failed,
                                  ![t].played = IF ~isNote THEN "no"
                                                ELSE IF ok THEN "yes" ELSE "threw",
                                  ![t].gain = IF isNote
                                              THEN << GainNumerator(tasks[t].velocity),
                                                      GainDivisor >>
                                              ELSE tasks[t].gain,
                                  ![t].playedOn = IF isNote /\ ok
                                                  THEN playNoteInstrument(t, h)
                                                  ELSE NoHandle]
        /\ activeNotesRef' =
              IF isNote
              THEN IF variant = "HQ" THEN playNoteHQ(t) ELSE playNoteMPC(t)
              ELSE activeNotesRef

\* The caller resumes with the handle loadInstrument returned. playNote
\* calls instrument.play, which returns a playing node (ok) or throws.
Returned(t, h, ok, failed) ==
    LET isNote == tasks[t].kind = "note"
    IN  /\ tasks' = [tasks EXCEPT ![t].pc = "done",
                                  ![t].handle = h,
                                  ![t].failed = failed,
                                  ![t].played = IF ~isNote THEN "no"
                                                ELSE IF ok THEN "yes" ELSE "threw",
                                  ![t].gain = IF isNote
                                              THEN << GainNumerator(tasks[t].velocity),
                                                      GainDivisor >>
                                              ELSE tasks[t].gain,
                                  ![t].playedOn = IF isNote /\ ok
                                                  THEN playNoteInstrument(t, h)
                                                  ELSE NoHandle]
        /\ activeNotesRef' =
              IF isNote /\ ok
              THEN IF variant = "HQ" THEN playNoteHQ(t) ELSE playNoteMPC(t)
              ELSE activeNotesRef

PlayOutcomes(t) == IF tasks[t].kind = "note" THEN BOOLEAN ELSE {TRUE}

\* A loadInstrument that swallows the failure of the fallback load and
\* returns without a handle.
ThrownSwallowed(t) ==
    /\ tasks' = [tasks EXCEPT ![t].pc = "done"]
    /\ error' = IF variant = "MPC" /\ tasks[t].kind = "initial" THEN "error" ELSE error
    /\ UNCHANGED activeNotesRef

\* loadInstrument threw (requested identity and fallback piano both failed):
\* MPC catches it in playNote and programChange and reports the failed
\* initial preload; in HQ the rejection is left unhandled.
Thrown(t) ==
    /\ tasks' = [tasks EXCEPT ![t].pc = "done", ![t].threw = TRUE]
    /\ error' = IF variant = "MPC" /\ tasks[t].kind = "initial" THEN "error" ELSE error
    /\ UNCHANGED activeNotesRef

TaskFrame ==
    UNCHANGED << variant,
                 taskLimit, playLimit, isReady, channelInstrumentsRef, soundfontOutputRef,
                 midiFile, files, player, isPlaying, isLoading, running, loadPc,
                 playPending, stopCalls, transport, lastProgram, lookup >>

\* await resumeAudioContext() returned: the loader is called.
ResumeAudioContextDone(t) ==
    /\ tasks[t].pc = "resume"
    /\ tasks' = [tasks EXCEPT ![t].pc = "loading", ![t].loaderCalls = 1]
    /\ UNCHANGED << instrumentsRef, activeNotesRef, error >>
    /\ TaskFrame

\* The cache hit's caller resumes.
CacheHitReturns(t) ==
    /\ tasks[t].pc = "hit"
    /\ \E ok \in PlayOutcomes(t) : Returned(t, tasks[t].handle, ok, FALSE)
    /\ UNCHANGED << instrumentsRef, error >>
    /\ TaskFrame

\* Soundfont.instrument(ac, instrumentName) resolved: cache it and return it.
\* A cache of one slot: the instrument that arrives replaces the others.
LoaderResolvesSingleSlot(t) ==
    /\ tasks[t].pc = "loading"
    /\ LET h == [id |-> t, inst |-> tasks[t].name]
       IN  /\ instrumentsRef' =
                 [i \in Identities |-> IF i = tasks[t].name THEN h ELSE NoHandle]
           /\ \E ok \in PlayOutcomes(t) : Returned(t, h, ok, FALSE)
    /\ UNCHANGED error
    /\ TaskFrame

LoaderResolves(t) ==
    /\ tasks[t].pc = "loading"
    /\ LET h == [id |-> t, inst |-> tasks[t].name]
       IN  /\ instrumentsRef' = [instrumentsRef EXCEPT ![tasks[t].name] = h]
           /\ \E ok \in PlayOutcomes(t) : Returned(t, h, ok, FALSE)
    /\ UNCHANGED error
    /\ TaskFrame

\* A load failure that ends the playback instead of falling back.
LoaderRejectsStopsPlayback(t) ==
    /\ tasks[t].pc = "loading"
    /\ tasks' = [tasks EXCEPT ![t].pc = "done", ![t].failed = TRUE]
    /\ running' = {}
    /\ isPlaying' = FALSE
    /\ error' = "error"
    /\ UNCHANGED << variant,
                    taskLimit, playLimit, isReady, channelInstrumentsRef, soundfontOutputRef,
                    midiFile, files, player, isLoading, loadPc, playPending,
                    stopCalls, transport, lastProgram, lookup, instrumentsRef,
                    activeNotesRef >>

\* Soundfont.instrument(ac, instrumentName) rejected: fall back to the piano,
\* loading it when the cache has none, and cache it under the failed name.
LoaderRejects(t) ==
    /\ tasks[t].pc = "loading"
    /\ IF instrumentsRef[Piano] = NoHandle
       THEN /\ tasks' = [tasks EXCEPT ![t].pc = "fallback", ![t].failed = TRUE,
                                       ![t].loaderCalls = 2]
            /\ error' = IF variant = "MPC" THEN "error" ELSE error
            /\ UNCHANGED << instrumentsRef, activeNotesRef >>
       ELSE /\ instrumentsRef' =
                  [instrumentsRef EXCEPT ![tasks[t].name] = instrumentsRef[Piano]]
            /\ \E ok \in PlayOutcomes(t) : Returned(t, instrumentsRef[Piano], ok, TRUE)
            /\ error' = IF variant = "MPC" THEN "error" ELSE error
    /\ TaskFrame

\* The fallback Soundfont.instrument(ac, "acoustic_grand_piano") resolved.
FallbackResolves(t) ==
    /\ tasks[t].pc = "fallback"
    /\ LET h == [id |-> t, inst |-> Piano]
       IN  /\ instrumentsRef' =
                 [instrumentsRef EXCEPT ![Piano] = h, ![tasks[t].name] = h]
           /\ \E ok \in PlayOutcomes(t) : Returned(t, h, ok, TRUE)
    /\ UNCHANGED error
    /\ TaskFrame

\* The fallback load rejected too: loadInstrument throws.
FallbackRejects(t) ==
    /\ tasks[t].pc = "fallback"
    /\ Thrown(t)
    /\ UNCHANGED instrumentsRef
    /\ TaskFrame

\* ------------------------------------------------------ midiEventHandler
\* Events come from a MidiPlayer.Player whose clock runs. The handler
\* returns at once when no soundfont output is installed.
EventFrame ==
    UNCHANGED << variant, instrumentsRef, soundfontOutputRef, midiFile, files, player,
                 isLoading, error, loadPc, playPending,
                 taskLimit, playLimit, isReady, lookup >>

\* playNote as the handler calls it: the activation of one note.
playNote(channel, noteName, velocity) ==
    Append(tasks,
        loadInstrument("note", playNoteInstrumentName(channel),
            [NoTaskFields EXCEPT
                !.channel = channel, !.noteName = noteName,
                !.velocity = velocity,
                !.assigned = channelInstrumentsRef[channel],
                !.program = lastProgram[channel]]))

\* A handler without the velocity test: every Note on is played.
midiEventHandlerNoteOnAnyVelocity(channel, noteName, velocity) ==
    [tasks |-> IF soundfontOutputRef
               THEN playNote(channel, noteName, velocity)
               ELSE tasks,
     notes |-> activeNotesRef,
     stops |-> stopCalls]

\* A handler that does not test for the soundfont output.
midiEventHandlerNoteOnUnguarded(channel, noteName, velocity) ==
    [tasks |-> IF velocity > 0
               THEN playNote(channel, noteName, velocity)
               ELSE tasks,
     notes |-> activeNotesRef,
     stops |-> stopCalls]

\* case "Note on": playNote for a positive velocity, nothing otherwise (MPC
\* logs the velocity-0 event, HQ has no else branch). The value is what the
\* handler leaves: the activations, the registry and the stop calls.
midiEventHandlerNoteOn(channel, noteName, velocity) ==
    [tasks |-> IF soundfontOutputRef /\ velocity > 0
               THEN playNote(channel, noteName, velocity)
               ELSE tasks,
     notes |-> activeNotesRef,
     stops |-> stopCalls]

NoteOn(channel, noteName, velocity) ==
    /\ running # {}
    /\ Len(midiEventHandlerNoteOn(channel, noteName, velocity).tasks) <= taskLimit
    /\ tasks' = midiEventHandlerNoteOn(channel, noteName, velocity).tasks
    /\ activeNotesRef' = midiEventHandlerNoteOn(channel, noteName, velocity).notes
    /\ stopCalls' = midiEventHandlerNoteOn(channel, noteName, velocity).stops
    /\ UNCHANGED << channelInstrumentsRef, isPlaying, running, transport,
                    lastProgram >>
    /\ EventFrame

\* case "Note off" (MPC: the stopNote call is commented out; HQ: no such
\* case, the event takes the default branch): the registry and the stop
\* calls the handler leaves are the ones it found.
midiEventHandlerNoteOff(channel, noteName) ==
    [notes |-> activeNotesRef, stops |-> stopCalls]

NoteOff(channel, noteName) ==
    /\ running # {}
    /\ activeNotesRef' = midiEventHandlerNoteOff(channel, noteName).notes
    /\ stopCalls' = midiEventHandlerNoteOff(channel, noteName).stops
    /\ UNCHANGED << channelInstrumentsRef, isPlaying, running, transport,
                    lastProgram, tasks >>
    /\ EventFrame

\* case "Program Change": programChange(event.channel, event.value) stores
\* the assignment, then preloads the instrument.
ProgramChange(channel, program) ==
    /\ running # {}
    /\ IF soundfontOutputRef
       THEN /\ CanPreload(getInstrumentName(program))
            /\ channelInstrumentsRef' = programChange(channel, program)
            /\ tasks' = Preload("preload", getInstrumentName(program),
                                [NoTaskFields EXCEPT !.channel = channel])
            /\ lastProgram' = [lastProgram EXCEPT ![channel] = getInstrumentName(program)]
       ELSE UNCHANGED << channelInstrumentsRef, tasks, lastProgram >>
    /\ UNCHANGED << activeNotesRef, stopCalls, isPlaying, running, transport >>
    /\ EventFrame

\* An End of File that stops all notes.
EndOfFileStopsNotes(p) ==
    /\ p \in running
    /\ running' = running \ {p}
    /\ isPlaying' = IF soundfontOutputRef THEN FALSE ELSE isPlaying
    /\ transport' = IF soundfontOutputRef THEN "ended" ELSE transport
    /\ activeNotesRef' =
          IF soundfontOutputRef THEN [k \in Keys |-> 0] ELSE activeNotesRef
    /\ stopCalls' =
          IF soundfontOutputRef
          THEN stopCalls \cup ({activeNotesRef[k] : k \in Keys} \ {0})
          ELSE stopCalls
    /\ UNCHANGED << channelInstrumentsRef, lastProgram, tasks >>
    /\ EventFrame

\* An End of File that resets the channel instruments.
EndOfFileResetsChannels(p) ==
    /\ p \in running
    /\ running' = running \ {p}
    /\ isPlaying' = IF soundfontOutputRef THEN FALSE ELSE isPlaying
    /\ transport' = IF soundfontOutputRef THEN "ended" ELSE transport
    /\ channelInstrumentsRef' =
          IF soundfontOutputRef THEN createSoundfontOutput ELSE channelInstrumentsRef
    /\ UNCHANGED << activeNotesRef, stopCalls, lastProgram, tasks >>
    /\ EventFrame

\* case "End of File": setIsPlaying(false). The player that reached the end
\* of its file stops its own clock.
EndOfFile(p) ==
    /\ p \in running
    /\ running' = running \ {p}
    /\ isPlaying' = IF soundfontOutputRef THEN FALSE ELSE isPlaying
    /\ transport' = IF soundfontOutputRef THEN "ended" ELSE transport
    /\ UNCHANGED << channelInstrumentsRef, activeNotesRef, stopCalls, lastProgram,
                    tasks >>
    /\ EventFrame

\* case "Pitch Bend" / "Controller Change": the handler calls pitchBend /
\* controlChange of the output. HQ defines them as empty functions; the MPC
\* output defines neither, so the call throws a TypeError out of the handler.
\* Any other event name takes the default branch. The handler leaves the
\* component's state as it found it; threw tells whether it threw.
midiEventHandlerOther(name) ==
    [channels |-> channelInstrumentsRef,
     notes |-> activeNotesRef,
     threw |-> /\ soundfontOutputRef
               /\ variant = "MPC"
               /\ name \in {"Pitch Bend", "Controller Change"}]

OtherEvent(name) ==
    /\ running # {}
    /\ channelInstrumentsRef' = midiEventHandlerOther(name).channels
    /\ activeNotesRef' = midiEventHandlerOther(name).notes
    /\ UNCHANGED << stopCalls, isPlaying, running, transport, lastProgram, tasks >>
    /\ EventFrame

\* ---------------------------------------------------- file load (useEffect)
\* History: the Note-On activations still pending when the session is torn
\* down (stop, unload, replacement) are marked; neither cleanup nor
\* handleStop does anything to them.
TearDown ==
    [t \in TaskIds |->
        IF Pending(t) /\ tasks[t].kind = "note"
        THEN [tasks[t] EXCEPT !.tornDown = TRUE]
        ELSE tasks[t]]

\* A cleanup that also empties the instrument cache.
cleanupClearsCache ==
    /\ running' = IF player # 0 THEN running \ {player} ELSE running
    /\ player' = 0
    /\ isPlaying' = FALSE
    /\ soundfontOutputRef' = FALSE
    /\ instrumentsRef' = [i \in Identities |-> NoHandle]

\* cleanup: stops the player, clears it and removes the soundfont output;
\* the instrument cache is kept (instrumentsRef.current = {} is commented
\* out).
cleanup ==
    /\ running' = IF player # 0 THEN running \ {player} ELSE running
    /\ player' = 0
    /\ isPlaying' = FALSE
    /\ soundfontOutputRef' = FALSE
    /\ instrumentsRef' = instrumentsRef

FileFrame ==
    UNCHANGED << variant, activeNotesRef, playPending, stopCalls,
                 taskLimit, playLimit, isReady, lookup >>

\* handleFileChange with a valid MIDI file: setMidiFile(file); the effect
\* cleans up the previous instance and starts the FileReader. The file input
\* is disabled while a load is in progress.
SelectFile ==
    /\ ~isLoading
    /\ files < MaxFiles
    /\ files' = files + 1
    /\ midiFile' = files + 1
    /\ isLoading' = TRUE
    /\ error' = ""
    /\ cleanup
    /\ loadPc' = "reading"
    /\ transport' = "idle"
    /\ tasks' = IF midiFile # 0 THEN TearDown ELSE tasks
    /\ UNCHANGED << channelInstrumentsRef, lastProgram >>
    /\ FileFrame

\* A handleFileChange that reports the invalid file and keeps what is loaded.
RejectFileKeepsLoaded(invalid) ==
    /\ ~isLoading
    /\ error' = IF invalid THEN "error" ELSE error
    /\ UNCHANGED << midiFile, running, player, isPlaying, soundfontOutputRef,
                    isLoading, transport, tasks, instrumentsRef >>
    /\ UNCHANGED << files, loadPc, channelInstrumentsRef, lastProgram >>
    /\ FileFrame

\* handleFileChange with an invalid file or a cancelled selection:
\* setMidiFile(null); when a file was loaded the effect runs and cleans up.
RejectFile(invalid) ==
    /\ ~isLoading
    /\ midiFile' = 0
    /\ error' = IF invalid THEN "error" ELSE error
    /\ IF midiFile # 0
       THEN /\ cleanup
            /\ isLoading' = FALSE
            /\ transport' = "idle"
            /\ tasks' = TearDown
       ELSE UNCHANGED << running, player, isPlaying, soundfontOutputRef, isLoading,
                         transport, tasks, instrumentsRef >>
    /\ UNCHANGED << files, loadPc, channelInstrumentsRef, lastProgram >>
    /\ FileFrame

\* reader.onload up to "await new Promise(setTimeout 50)": the soundfont
\* output is created (channels reset, piano preloaded) and the new player
\* loads the buffer.
ReaderOnload ==
    /\ loadPc = "reading"
    /\ CanPreload(getInstrumentName(0))
    /\ channelInstrumentsRef' = createSoundfontOutput
    /\ tasks' = Preload("initial", getInstrumentName(0), NoTaskFields)
    /\ soundfontOutputRef' = TRUE
    /\ lastProgram' = [c \in ModelChannels |-> "none"]
    /\ loadPc' = "settling"
    /\ UNCHANGED << midiFile, files, player, isPlaying, isLoading, error, running,
                    transport, instrumentsRef >>
    /\ FileFrame

\* reader.onload throws: before the output exists (no audio context) or after
\* createSoundfontOutput ran (loadArrayBuffer rejects the buffer). The catch
\* block reports it; finally ends the loading state.
ReaderOnloadThrows(stage) ==
    /\ loadPc = "reading"
    /\ IF stage = "buffer"
       THEN /\ CanPreload(getInstrumentName(0))
            /\ channelInstrumentsRef' = createSoundfontOutput
            /\ tasks' = Preload("initial", getInstrumentName(0), NoTaskFields)
            /\ lastProgram' = [c \in ModelChannels |-> "none"]
       ELSE UNCHANGED << channelInstrumentsRef, tasks, lastProgram >>
    /\ error' = "error"
    /\ player' = 0
    /\ soundfontOutputRef' = FALSE
    /\ isLoading' = FALSE
    /\ loadPc' = "idle"
    /\ UNCHANGED << midiFile, files, isPlaying, running, transport, instrumentsRef >>
    /\ FileFrame

\* A reader.onerror that leaves the loading state on.
ReaderOnErrorKeepsLoading ==
    /\ loadPc = "reading"
    /\ error' = "error"
    /\ player' = 0
    /\ soundfontOutputRef' = FALSE
    /\ loadPc' = "idle"
    /\ UNCHANGED << midiFile, files, isPlaying, running, transport, isLoading,
                    channelInstrumentsRef, tasks, lastProgram, instrumentsRef >>
    /\ FileFrame

\* reader.onerror
ReaderOnError ==
    /\ loadPc = "reading"
    /\ error' = "error"
    /\ isLoading' = FALSE
    /\ player' = 0
    /\ soundfontOutputRef' = FALSE
    /\ loadPc' = "idle"
    /\ UNCHANGED << midiFile, files, isPlaying, running, transport,
                    channelInstrumentsRef, tasks, lastProgram, instrumentsRef >>
    /\ FileFrame

\* reader.onload after the 50 ms wait: setPlayer(newPlayer).
PlayerReady ==
    /\ loadPc = "settling"
    /\ player' = midiFile
    /\ isPlaying' = FALSE
    /\ error' = ""
    /\ isLoading' = FALSE
    /\ loadPc' = "idle"
    /\ UNCHANGED << midiFile, files, running, transport, soundfontOutputRef,
                    channelInstrumentsRef, tasks, lastProgram, instrumentsRef >>
    /\ FileFrame

\* ------------------------------------------------------ playback controls
ControlFrame ==
    UNCHANGED << variant, instrumentsRef, channelInstrumentsRef, activeNotesRef,
                 soundfontOutputRef, midiFile, files, player, isLoading, loadPc,
                 stopCalls, lastProgram, taskLimit, playLimit, isReady, lookup >>

\* handlePlay up to "await resumeAudioContext()". The handler reads player
\* and isPlaying of the render in which the (enabled) button was clicked.
HandlePlay ==
    /\ player # 0 /\ ~isPlaying /\ ~isLoading
    /\ Len(playPending) < playLimit
    /\ playPending' = Append(playPending, [player |-> player, isPlaying |-> isPlaying])
    /\ UNCHANGED << isPlaying, error, running, transport, tasks >>
    /\ ControlFrame

\* handlePlay after the await: player.play() throws when that player's clock
\* already runs; the catch block reports it and clears isPlaying.
HandlePlayResumed ==
    /\ playPending # << >>
    /\ LET c == Head(playPending)
       IN  IF c.player # 0 /\ ~c.isPlaying
           THEN IF c.player \in running
                THEN /\ error' = "error"
                     /\ isPlaying' = FALSE
                     /\ UNCHANGED << running, transport >>
                ELSE /\ running' = running \cup {c.player}
                     /\ isPlaying' = TRUE
                     /\ error' = ""
                     /\ transport' = "playing"
           ELSE /\ error' = IF c.player = 0 THEN "error" ELSE error
                /\ UNCHANGED << isPlaying, running, transport >>
    /\ playPending' = Tail(playPending)
    /\ UNCHANGED tasks
    /\ ControlFrame

\* handlePause: player.pause(); setIsPlaying(false).
HandlePause ==
    /\ player # 0 /\ isPlaying /\ ~isLoading
    /\ running' = running \ {player}
    /\ isPlaying' = FALSE
    /\ transport' = "paused"
    /\ UNCHANGED << error, playPending, tasks >>
    /\ ControlFrame

\* handleStop: player.stop(); setIsPlaying(false). The loop over the cached
\* instruments has an empty body; no note is stopped.
HandleStop ==
    /\ player # 0 /\ ~isLoading
    /\ running' = running \ {player}
    /\ isPlaying' = FALSE
    /\ transport' = "stopped"
    /\ tasks' = TearDown
    /\ UNCHANGED << error, playPending >>
    /\ ControlFrame

\* ---------------------------------------------------------- specification
EventNames == {"Pitch Bend", "Controller Change", "Set Tempo"}

Next ==
    \/ \E c \in ModelChannels, n \in NoteNames, v \in Velocities : NoteOn(c, n, v)
    \/ \E c \in ModelChannels, n \in NoteNames : NoteOff(c, n)
    \/ \E c \in ModelChannels, p \in Programs : ProgramChange(c, p)
    \/ \E p \in running : EndOfFile(p)
    \/ \E name \in EventNames : OtherEvent(name)
    \/ \E t \in TaskIds : ResumeAudioContextDone(t)
    \/ \E t \in TaskIds : CacheHitReturns(t)
    \/ \E t \in TaskIds : LoaderResolves(t)
    \/ \E t \in TaskIds : LoaderRejects(t)
    \/ \E t \in TaskIds : FallbackResolves(t)
    \/ \E t \in TaskIds : FallbackRejects(t)
    \/ SelectFile
    \/ \E invalid \in BOOLEAN : RejectFile(invalid)
    \/ ReaderOnload
    \/ \E stage \in {"ac", "buffer"} : ReaderOnloadThrows(stage)
    \/ ReaderOnError
    \/ PlayerReady
    \/ HandlePlay
    \/ HandlePlayResumed
    \/ HandlePause
    \/ HandleStop

Spec == Init /\ [][Next]_vars

\* The FileReader started by readAsArrayBuffer ends with onload or onerror,
\* and the 50 ms timer reader.onload awaits fires.
ReaderEnds ==
    \/ ReaderOnload
    \/ \E stage \in {"ac", "buffer"} : ReaderOnloadThrows(stage)
    \/ ReaderOnError

FairSpec == Spec /\ WF_vars(ReaderEnds) /\ WF_vars(PlayerReady)

\* The router alone, in a session that plays its first file: the output is
\* installed, the player's clock runs and the initial piano preload has just
\* been started. Only events and the activations' steps follow.
RouterInit ==
    /\ variant \in Variants
    /\ instrumentsRef = [i \in Identities |-> NoHandle]
    /\ channelInstrumentsRef =
          [c \in ModelChannels |-> IF c < NumChannels THEN getInstrumentName(0)
                                   ELSE "undefined"]
    /\ activeNotesRef = [k \in Keys |-> 0]
    /\ soundfontOutputRef = TRUE
    /\ midiFile = 1
    /\ files = 1
    /\ player = 1
    /\ isPlaying = TRUE
    /\ isLoading = FALSE
    /\ error = ""
    /\ running = {1}
    /\ loadPc = "idle"
    /\ playPending = << >>
    /\ tasks = << [kind |-> "initial", name |-> getInstrumentName(0), pc |-> "resume",
                   hit |-> FALSE, started |-> {}, file |-> 1] @@ NoTaskFields >>
    /\ taskLimit = MaxTasks
    /\ playLimit = MaxPlayPending
    /\ isReady = FALSE
    /\ stopCalls = {}
    /\ transport = "playing"
    /\ lastProgram = [c \in ModelChannels |-> "none"]
    /\ lookup = NoLookup

RouterNext ==
    \/ \E c \in ModelChannels, n \in NoteNames, v \in Velocities : NoteOn(c, n, v)
    \/ \E c \in ModelChannels, n \in NoteNames : NoteOff(c, n)
    \/ \E c \in ModelChannels, p \in Programs : ProgramChange(c, p)
    \/ \E p \in running : EndOfFile(p)
    \/ \E name \in EventNames : OtherEvent(name)
    \/ \E t \in TaskIds : ResumeAudioContextDone(t)
    \/ \E t \in TaskIds : CacheHitReturns(t)
    \/ \E t \in TaskIds : LoaderResolves(t)
    \/ \E t \in TaskIds : LoaderRejects(t)
    \/ \E t \in TaskIds : FallbackResolves(t)
    \/ \E t \in TaskIds : FallbackRejects(t)

RouterSpec == RouterInit /\ [][RouterNext]_vars

\* getInstrumentName on its own: one call with a program number of
\* ProgramNumbers, in a component that has no file.
ProgramNumbers ==
    (0 - MaxProgramMargin)..(Len(gmInstruments) - 1 + MaxProgramMargin)

LookupInit ==
    /\ variant \in Variants
    /\ instrumentsRef = [i \in Identities |-> NoHandle]
    /\ channelInstrumentsRef = [c \in ModelChannels |-> "undefined"]
    /\ activeNotesRef = [k \in Keys |-> 0]
    /\ soundfontOutputRef = FALSE
    /\ midiFile = 0
    /\ files = 0
    /\ player = 0
    /\ isPlaying = FALSE
    /\ isLoading = FALSE
    /\ error = ""
    /\ running = {}
    /\ loadPc = "idle"
    /\ playPending = << >>
    /\ tasks = << >>
    /\ taskLimit = 0
    /\ playLimit = MaxPlayPending
    /\ isReady = FALSE
    /\ stopCalls = {}
    /\ transport = "idle"
    /\ lastProgram = [c \in ModelChannels |-> "none"]
    /\ \E p \in ProgramNumbers :
          lookup = [programNumber |-> p, instrumentName |-> "none"]

LookupInstrumentName ==
    /\ lookup.instrumentName = "none"
    /\ lookup' = [lookup EXCEPT !.instrumentName = getInstrumentName(lookup.programNumber)]
    /\ UNCHANGED << variant, instrumentsRef, channelInstrumentsRef, activeNotesRef,
                    soundfontOutputRef, midiFile, files, player, isPlaying, isLoading,
                    error, running, loadPc, playPending, tasks,
                    taskLimit, playLimit, isReady, stopCalls,
                    transport, lastProgram >>

LookupNext == LookupInstrumentName

LookupSpec == LookupInit /\ [][LookupNext]_vars

\* ------------------------------------------ the channel table on its own
\* The channel table over the sessions of one component, for the three
\* variants and with channel 9 among the channels. The instruments are in
\* the cache from earlier loads (activations 1 and 2), so every preload
\* returns on the cache check; no player is running.
WarmTask(t, kind, instrumentName) ==
    [kind |-> kind, name |-> instrumentName, pc |-> "done", hit |-> FALSE,
     started |-> {}, file |-> 0]
    @@ [NoTaskFields EXCEPT !.handle = [id |-> t, inst |-> instrumentName],
                            !.loaderCalls = 1]

ChannelInit ==
    /\ variant \in TableVariants
    /\ instrumentsRef =
          [i \in Identities |-> [id |-> IF i = Piano THEN 1 ELSE 2, inst |-> i]]
    /\ channelInstrumentsRef = [c \in TableChannels |-> "undefined"]
    /\ activeNotesRef = [k \in Keys |-> 0]
    /\ soundfontOutputRef = FALSE
    /\ midiFile = 0
    /\ files = 0
    /\ player = 0
    /\ isPlaying = FALSE
    /\ isLoading = FALSE
    /\ error = ""
    /\ running = {}
    /\ loadPc = "idle"
    /\ playPending = << >>
    /\ tasks = << WarmTask(1, "initial", Piano),
                  WarmTask(2, "preload", getInstrumentName(40)) >>
    /\ taskLimit = 2
    /\ playLimit = MaxPlayPending
    /\ isReady = FALSE
    /\ stopCalls = {}
    /\ transport = "idle"
    /\ lastProgram = [c \in TableChannels |-> "none"]
    /\ lookup = NoLookup

ChannelFrame ==
    UNCHANGED << variant, instrumentsRef, activeNotesRef, midiFile, files, player,
                 isPlaying, isLoading, error, running, loadPc, playPending, tasks,
                 taskLimit, playLimit, isReady, stopCalls, transport, lookup >>

\* A session starts: the output is created.
ChannelCreateOutput ==
    /\ ~soundfontOutputRef
    /\ soundfontOutputRef' = TRUE
    /\ channelInstrumentsRef' = createSoundfontOutput
    /\ lastProgram' = [c \in TableChannels |-> "none"]
    /\ ChannelFrame

\* The session ends (unload, replacement): the cleanup drops the output and
\* leaves the channel table (channelInstrumentsRef.current = {} is commented
\* out).
ChannelCleanup ==
    /\ soundfontOutputRef
    /\ soundfontOutputRef' = FALSE
    /\ UNCHANGED << channelInstrumentsRef, lastProgram >>
    /\ ChannelFrame

\* A Program Change event of the file reaches the player's callback.
ChannelProgramChange(channel, program) ==
    /\ soundfontOutputRef
    /\ channelInstrumentsRef' = playerProgramChange(channel, program)
    /\ lastProgram' = [lastProgram EXCEPT ![channel] = getInstrumentName(program)]
    /\ UNCHANGED soundfontOutputRef
    /\ ChannelFrame

ChannelNext ==
    \/ ChannelCreateOutput
    \/ ChannelCleanup
    \/ \E c \in TableChannels, p \in Programs : ChannelProgramChange(c, p)

ChannelSpec == ChannelInit /\ [][ChannelNext]_vars

\* ----------------------------------------------------- the play requests
\* The file loads and the playback controls with up to MaxPlayRequests
\* handlePlay calls suspended at one time. The instruments are in the cache
\* from earlier loads (activations 1 and 2), so the preload of a session
\* start returns on the cache check; the events but End of File are left out.
PlayInit ==
    /\ variant \in Variants
    /\ instrumentsRef =
          [i \in Identities |-> [id |-> IF i = Piano THEN 1 ELSE 2, inst |-> i]]
    /\ channelInstrumentsRef = [c \in ModelChannels |-> "undefined"]
    /\ activeNotesRef = [k \in Keys |-> 0]
    /\ soundfontOutputRef = FALSE
    /\ midiFile = 0
    /\ files = 0
    /\ player = 0
    /\ isPlaying = FALSE
    /\ isLoading = FALSE
    /\ error = ""
    /\ running = {}
    /\ loadPc = "idle"
    /\ playPending = << >>
    /\ tasks = << WarmTask(1, "initial", Piano),
                  WarmTask(2, "preload", getInstrumentName(40)) >>
    /\ taskLimit = 2
    /\ playLimit = MaxPlayRequests
    /\ isReady = FALSE
    /\ stopCalls = {}
    /\ transport = "idle"
    /\ lastProgram = [c \in ModelChannels |-> "none"]
    /\ lookup = NoLookup

PlayNext ==
    \/ \E p \in running : EndOfFile(p)
    \/ SelectFile
    \/ \E invalid \in BOOLEAN : RejectFile(invalid)
    \/ ReaderOnload
    \/ \E stage \in {"ac", "buffer"} : ReaderOnloadThrows(stage)
    \/ ReaderOnError
    \/ PlayerReady
    \/ HandlePlay
    \/ HandlePlayResumed
    \/ HandlePause
    \/ HandleStop

PlaySpec == PlayInit /\ [][PlayNext]_vars

\* ------------------------------------------- HighQualityMidiPlayer (URLs)
\* The component HighQualityMidiPlayer({ midiUrl, soundfontUrl }). Its state
\* is kept in the variables of the same name; playerRef.current is player,
\* the midiUrl prop is midiFile (0: not provided; soundfontUrl has a
\* default), and tasks holds the calls of initAudioContext the effect made.
HQInit ==
    /\ variant = "HighQualityMidiPlayer"
    /\ instrumentsRef = [i \in Identities |-> NoHandle]
    /\ channelInstrumentsRef = [c \in ModelChannels |-> "undefined"]
    /\ activeNotesRef = [k \in Keys |-> 0]
    /\ soundfontOutputRef = FALSE
    /\ midiFile = 0
    /\ files = 0
    /\ player = 0
    /\ isPlaying = FALSE
    /\ isLoading = FALSE
    /\ error = ""
    /\ running = {}
    /\ loadPc = "idle"
    /\ playPending = << >>
    /\ tasks = << >>
    /\ taskLimit = MaxUrls
    /\ playLimit = MaxPlayPending
    /\ isReady = FALSE
    /\ stopCalls = {}
    /\ transport = "idle"
    /\ lastProgram = [c \in ModelChannels |-> "none"]
    /\ lookup = NoLookup

HQFrame ==
    UNCHANGED << variant, instrumentsRef, channelInstrumentsRef, activeNotesRef,
                 soundfontOutputRef, loadPc, playPending, taskLimit, playLimit,
                 stopCalls, lastProgram, lookup >>

\* The call of initAudioContext() the effect makes for the URL it runs for.
initAudioContext(url) ==
    [kind |-> "init", name |-> "", pc |-> "resume", hit |-> FALSE, started |-> {},
     file |-> url] @@ NoTaskFields

\* The effect runs for a new midiUrl: the cleanup of the previous run (if
\* that run had its URLs) stops and clears playerRef; then setIsLoading(true),
\* setError(null), setIsReady(false), setIsPlaying(false), initAudioContext().
HQSetUrls ==
    /\ Len(tasks) < taskLimit
    /\ files' = files + 1
    /\ midiFile' = files + 1
    /\ running' = IF midiFile # 0 /\ player # 0 THEN running \ {player} ELSE running
    /\ player' = IF midiFile # 0 THEN 0 ELSE player
    /\ isLoading' = TRUE
    /\ error' = ""
    /\ isReady' = FALSE
    /\ isPlaying' = FALSE
    /\ transport' = "idle"
    /\ tasks' = Append(tasks, initAudioContext(files + 1))
    /\ HQFrame

\* The midiUrl is removed: the cleanup of the previous run, then the effect's
\* early branch: setIsReady(false), playerRef stopped and cleared. isLoading
\* is not touched.
HQRemoveUrls ==
    /\ midiFile # 0
    /\ midiFile' = 0
    /\ running' = IF player # 0 THEN running \ {player} ELSE running
    /\ player' = 0
    /\ isPlaying' = FALSE
    /\ isReady' = FALSE
    /\ transport' = "idle"
    /\ UNCHANGED << files, isLoading, error, tasks >>
    /\ HQFrame

\* initAudioContext() resolved and the then-callback runs. Without a context
\* (it returned false after setError) the callback ends the loading state.
\* With one it stops the previous player, creates a MidiPlayer.Player and
\* registers endOfFile on it; the chain loadSoundFont / loadMidiFile that
\* stored the player and called setIsLoading(false), setIsReady(true) is
\* commented out, so the new player is dropped when the callback returns.
HQInitResolves(t, contextReady) ==
    /\ tasks[t].kind = "init"
    /\ tasks[t].pc = "resume"
    /\ tasks' = [tasks EXCEPT ![t].pc = "done", ![t].failed = ~contextReady]
    /\ IF contextReady
       THEN /\ running' = IF player # 0 THEN running \ {player} ELSE running
            /\ UNCHANGED << isLoading, error >>
       ELSE /\ isLoading' = FALSE
            /\ error' = "error"
            /\ UNCHANGED running
    /\ UNCHANGED << midiFile, files, player, isReady, isPlaying, transport >>
    /\ HQFrame

\* handlePlayPause: returns at once without a player, while loading or when
\* not ready; otherwise (the audio context running) it pauses a playing
\* player and plays a paused one.
HQHandlePlayPause ==
    /\ IF player = 0 \/ isLoading \/ ~isReady
       THEN UNCHANGED << running, isPlaying, transport >>
       ELSE /\ running' = IF isPlaying THEN running \ {player}
                          ELSE running \cup {player}
            /\ isPlaying' = ~isPlaying
            /\ transport' = IF isPlaying THEN "paused" ELSE "playing"
    /\ UNCHANGED << midiFile, files, player, isLoading, isReady, error, tasks >>
    /\ HQFrame

\* handleStop: if (playerRef.current && isReady) { stop(); setIsPlaying(false) }
HQHandleStop ==
    /\ IF player # 0 /\ isReady
       THEN /\ running' = running \ {player}
            /\ isPlaying' = FALSE
            /\ transport' = "stopped"
       ELSE UNCHANGED << running, isPlaying, transport >>
    /\ UNCHANGED << midiFile, files, player, isLoading, isReady, error, tasks >>
    /\ HQFrame

HQNext ==
    \/ HQSetUrls
    \/ HQRemoveUrls
    \/ \E t \in TaskIds, contextReady \in BOOLEAN : HQInitResolves(t, contextReady)
    \/ HQHandlePlayPause
    \/ HQHandleStop

\* Every call of initAudioContext settles.
HQSpec ==
    /\ HQInit
    /\ [][HQNext]_vars
    /\ WF_vars(\E t \in TaskIds, contextReady \in BOOLEAN :
                  HQInitResolves(t, contextReady))

\* ------------------------------------------------- the gain of one note
\* The velocities of a Note on that is played: a 7-bit data byte, not 0.
MidiVelocities == 1..127

\* A file is playing and its initial preload has put the piano into the
\* cache; a Note on of channel 0 has been dispatched with one of the
\* velocities and its playNote waits for the handle loadInstrument returned.
GainInit ==
    /\ variant \in Variants
    /\ instrumentsRef =
          [i \in Identities |-> IF i = Piano THEN [id |-> 1, inst |-> Piano]
                                ELSE NoHandle]
    /\ channelInstrumentsRef =
          [c \in ModelChannels |-> IF c < NumChannels THEN getInstrumentName(0)
                                   ELSE "undefined"]
    /\ activeNotesRef = [k \in Keys |-> 0]
    /\ soundfontOutputRef = TRUE
    /\ midiFile = 1
    /\ files = 1
    /\ player = 1
    /\ isPlaying = TRUE
    /\ isLoading = FALSE
    /\ error = ""
    /\ running = {1}
    /\ loadPc = "idle"
    /\ playPending = << >>
    /\ \E v \in MidiVelocities :
          tasks = << [WarmTask(1, "initial", Piano) EXCEPT !.file = 1],
                     [kind |-> "note", name |-> Piano, pc |-> "hit", hit |-> TRUE,
                      started |-> {}, file |-> 1]
                     @@ [NoTaskFields EXCEPT
                            !.channel = 0, !.noteName = "C4", !.velocity = v,
                            !.handle = [id |-> 1, inst |-> Piano],
                            !.assigned = Piano] >>
    /\ taskLimit = 2
    /\ playLimit = MaxPlayPending
    /\ isReady = FALSE
    /\ stopCalls = {}
    /\ transport = "playing"
    /\ lastProgram = [c \in ModelChannels |-> "none"]
    /\ lookup = NoLookup

GainNext == \E t \in TaskIds : CacheHitReturns(t)

GainSpec == GainInit /\ [][GainNext]_vars

\* ------------------------------------------------------------- properties
NoteTasks == {t \in TaskIds : tasks[t].kind = "note"}
\* The notes instrument.play returned a playing node for; the node of
\* activation t is identified by t.
Triggered == {t \in NoteTasks : tasks[t].played = "yes"}
KeyOf(t) == <<tasks[t].channel, tasks[t].noteName>>
Registered == {activeNotesRef[k] : k \in Keys} \ {0}
\* The nodes playNote has stored in the registry: every triggered note in
\* HQ, none in MPC.
EverRegistered == IF variant = "HQ" THEN Triggered ELSE {}
\* The activations whose call of loadInstrument returned a handle.
Acquired == {t \in TaskIds : tasks[t].pc = "done" /\ ~tasks[t].threw}
IdentityOrDefault(assigned) ==
    IF assigned = "undefined" THEN "acoustic_grand_piano" ELSE assigned

\* C1: at any moment at most one loader call (Soundfont.instrument) is in
\* flight per instrument identity.
C1_SingleFlight ==
    \A i \in Identities : Cardinality(InFlight(i)) <= 1

\* C2: two concurrent acquires of one identity (the first still pending when
\* the second was issued) that both returned received the same handle, and
\* that handle is the one the cache holds for the identity.
C2_ConcurrentAcquiresShareHandle ==
    \A t, u \in Acquired :
        (t \in tasks[u].started /\ tasks[t].name = tasks[u].name)
            => /\ tasks[t].handle = tasks[u].handle
               /\ instrumentsRef[tasks[t].name] = tasks[t].handle

\* C3: an acquire of a non-default identity X whose loader call failed
\* returned the default identity's handle and the cache holds that handle
\* under X; every acquire of X issued after it returned is a cache hit that
\* returns that same handle.
C3_FailedLoadMemoizedAsAlias ==
    \A t \in Acquired :
        (tasks[t].failed /\ tasks[t].name # Piano)
            => /\ tasks[t].handle.inst = Piano
               /\ instrumentsRef[tasks[t].name] = tasks[t].handle
               /\ \A u \in TaskIds :
                     (u > t /\ t \notin tasks[u].started
                            /\ tasks[u].name = tasks[t].name)
                         => /\ tasks[u].pc \in {"hit", "done"}
                            /\ ~tasks[u].failed
                            /\ tasks[u].handle = tasks[t].handle

\* C4: a Note-On acquires the identity its channel was assigned when it was
\* dispatched (the default when the channel had none), and its note is
\* triggered on the handle that acquire returned, whatever the channel's
\* assignment has become in the meantime.
C4_NoteOnReadsAssignmentAtDispatch ==
    \A t \in NoteTasks :
        /\ tasks[t].name = IdentityOrDefault(tasks[t].assigned)
        /\ tasks[t].played = "yes"
              => /\ tasks[t].playedOn = tasks[t].handle
                 /\ tasks[t].playedOn.inst \in {tasks[t].name, Piano}

\* A note was triggered on its dispatch-time identity although a Program
\* Change gave its channel another identity while the note's load was pending.
C4_Witness ==
    \E t \in Triggered, q \in TaskIds :
        /\ tasks[q].kind = "preload"
        /\ t \in tasks[q].started
        /\ tasks[q].channel = tasks[t].channel
        /\ tasks[q].name # tasks[t].name
        /\ channelInstrumentsRef[tasks[t].channel] = tasks[q].name
        /\ tasks[t].playedOn.inst = tasks[t].name

\* C5: a Note-On dispatched on channel c after the session's last Program
\* Change on c, to program p, acquires getInstrumentName(p), whatever the
\* state of p's preload; a Program Change on c leaves the assignment of every
\* other channel as it was, and no step of a load changes any assignment.
C5_NoteOnAfterProgramChange ==
    \A t \in NoteTasks :
        tasks[t].program # "none" => tasks[t].name = tasks[t].program

C5_OtherChannelsUnchanged ==
    /\ \A c \in ModelChannels, p \in Programs :
          ProgramChange(c, p)
              => \A d \in ModelChannels \ {c} :
                    channelInstrumentsRef'[d] = channelInstrumentsRef[d]
    /\ tasks' # tasks /\ Len(tasks') = Len(tasks)
          => channelInstrumentsRef' = channelInstrumentsRef

C5_ProgramChangeAssigns ==
    /\ []C5_NoteOnAfterProgramChange
    /\ [][C5_OtherChannelsUnchanged]_vars

\* A Note-On that followed a Program Change to a non-default program while
\* that program's preload was pending, and whose note has been triggered.
C5_Witness ==
    \E t \in Triggered, q \in TaskIds :
        /\ tasks[q].kind = "preload"
        /\ q \in tasks[t].started
        /\ tasks[q].channel = tasks[t].channel
        /\ tasks[q].name = tasks[t].name
        /\ tasks[t].program = tasks[t].name
        /\ tasks[t].name # Piano
        /\ \E d \in ModelChannels \ {tasks[t].channel} :
              channelInstrumentsRef[d] # tasks[t].name

\* C6: whenever the router can handle a Note-Off for (channel, noteName),
\* handling it leaves no registry entry for the pair and the handle that was
\* registered for it has received stop; the other entries are as they were,
\* and with no entry for the pair nothing changes.
C6_NoteOffStopsAndRemoves ==
    \A c \in ModelChannels, n \in NoteNames :
        (running # {} /\ soundfontOutputRef)
            => LET r == midiEventHandlerNoteOff(c, n)
               IN  /\ r.notes[<<c, n>>] = 0
                   /\ activeNotesRef[<<c, n>>] # 0
                         => activeNotesRef[<<c, n>>] \in r.stops
                   /\ \A k \in Keys \ {<<c, n>>} : r.notes[k] = activeNotesRef[k]
                   /\ activeNotesRef[<<c, n>>] = 0
                         => r.notes = activeNotesRef /\ r.stops = stopCalls

\* C7: the registry holds exactly the notes that were triggered and have not
\* been stopped, each under its (channel, noteName) with its playing node.
C7_RegistryHoldsTriggeredNotes ==
    /\ \A t \in Triggered \ stopCalls : activeNotesRef[KeyOf(t)] = t
    /\ Registered \subseteq Triggered \ stopCalls

\* C8: when a triggered note replaces the registry entry of its pair, the
\* node that was registered has received stop by the time the new one is
\* stored.
C8_RetriggerStopsPriorHandle ==
    [][\A k \in Keys :
          (activeNotesRef[k] # 0 /\ activeNotesRef'[k] \notin {0, activeNotesRef[k]})
              => activeNotesRef[k] \in stopCalls']_vars

\* C9: handleStop leaves the registry empty and every node that was
\* registered has received stop.
C9_StopPerformsStopAll ==
    [][HandleStop
          => /\ \A k \in Keys : activeNotesRef'[k] = 0
             /\ Registered \subseteq stopCalls']_vars

\* C10: in every state in which the transport is not playing after a pause,
\* a stop, a file unload or a file replacement, the registry is empty and
\* every node that was registered has received stop.
C10_NoNoteSurvivesNotPlaying ==
    (transport \in {"paused", "stopped", "idle"} /\ ~isPlaying)
        => /\ \A k \in Keys : activeNotesRef[k] = 0
           /\ EverRegistered \subseteq stopCalls

\* C11: a Note-On whose load was pending when its session was torn down
\* (playback stopped, file unloaded or replaced) gets no trigger call
\* afterwards: instrument.play is not called for it.
C11_NoTriggerAfterTeardown ==
    \A t \in NoteTasks : tasks[t].tornDown => tasks[t].played = "no"

\* C12: when the note of a Note-On is triggered (and registered), no note of
\* a Note-On that came later in the event stream has been triggered yet.
C12_StreamOrderPreserved ==
    [][\A a, b \in NoteTasks :
          (a < b /\ tasks[a].played = "no" /\ tasks'[a].played = "yes")
              => tasks[b].played # "yes"]_vars

\* C13: getInstrumentName returns, for every program number 0..127, the name
\* at that position of the 128-entry table (a usable, non-empty name), and
\* the default acoustic_grand_piano for every other integer.
C13_GetInstrumentNameTotal ==
    /\ Len(gmInstruments) = 128
    /\ lookup.instrumentName # "none"
          => /\ lookup.instrumentName # ""
             /\ lookup.programNumber \in 0..127
                   => lookup.instrumentName = gmInstruments[lookup.programNumber + 1]
             /\ lookup.programNumber \notin 0..127
                   => lookup.instrumentName = "acoustic_grand_piano"
             /\ lookup.programNumber = 0
                   => lookup.instrumentName = "acoustic_grand_piano"
             /\ lookup.programNumber = 127 => lookup.instrumentName = "gunshot"

\* getInstrumentName(128), the first number past the table, gave the default.
C13_Witness ==
    lookup.programNumber = 128 /\ lookup.instrumentName = "acoustic_grand_piano"

\* C14 (as the code has it): program number 104 resolves to "sitar"; the
\* shamisen is program number 106.
C14_Program104IsSitar ==
    lookup.instrumentName # "none"
        => /\ lookup.programNumber = 104 => lookup.instrumentName = "sitar"
           /\ lookup.programNumber = 106 => lookup.instrumentName = "shamisen"

\* C14 (as stated): program number 104 resolves to "shamisen".
C14_Program104IsShamisen ==
    (lookup.programNumber = 104 /\ lookup.instrumentName # "none")
        => lookup.instrumentName = "shamisen"

\* getInstrumentName(104) has been called.
C14_Witness ==
    lookup.programNumber = 104 /\ lookup.instrumentName = "sitar"

\* C15: an acquire of an identity the cache holds a handle for is given
\* exactly that handle, returns it, and makes no loader call.
C15_HitKeepsHandle ==
    /\ \A t \in TaskIds : tasks[t].hit => tasks'[t].handle = tasks[t].handle
    /\ Len(tasks') = Len(tasks) + 1
          => LET u == tasks'[Len(tasks')]
             IN  /\ u.hit <=> instrumentsRef[u.name] # NoHandle
                 /\ u.hit => u.handle = instrumentsRef[u.name]

C15_HitMakesNoLoaderCall ==
    \A t \in TaskIds :
        tasks[t].hit => /\ tasks[t].loaderCalls = 0
                        /\ tasks[t].pc \in {"hit", "done"}
                        /\ tasks[t].handle # NoHandle
                        /\ ~tasks[t].failed /\ ~tasks[t].threw

C15_CacheHit ==
    /\ []C15_HitMakesNoLoaderCall
    /\ [][C15_HitKeepsHandle]_vars

\* A Note-On whose instrument was cached has returned from its acquire and
\* its note has been triggered.
C15_Witness ==
    \E t \in Triggered : tasks[t].hit /\ tasks[t].playedOn = tasks[t].handle

\* C16: when the loader call for the requested identity and the fallback
\* load of the default identity both fail, the acquire throws to its caller:
\* it returns no handle and writes no cache entry.
C16_FailureThrows ==
    \A t \in TaskIds :
        FallbackRejects(t) => /\ tasks'[t].threw
                              /\ tasks'[t].pc = "done"
                              /\ tasks'[t].handle = NoHandle
                              /\ instrumentsRef' = instrumentsRef

C16_ThrownHasNoHandle ==
    \A t \in TaskIds :
        tasks[t].threw => /\ tasks[t].handle = NoHandle
                          /\ tasks[t].played = "no"
                          /\ tasks[t].loaderCalls = 2
                          /\ instrumentsRef[tasks[t].name].id # t

C16_CriticalFailure ==
    /\ []C16_ThrownHasNoHandle
    /\ [][C16_FailureThrows]_vars

\* The acquire of a non-default identity ended in a critical failure and the
\* cache has no entry for that identity.
C16_Witness ==
    \E t \in TaskIds : /\ tasks[t].threw
                        /\ tasks[t].name # Piano
                        /\ instrumentsRef[tasks[t].name] = NoHandle

\* C17: once an acquire has ended in a critical failure, no Note-On
\* dispatched after it gets a trigger call.
C17_NoTriggerAfterCriticalFailure ==
    \A t \in TaskIds, u \in NoteTasks :
        (tasks[t].threw /\ u > t /\ t \notin tasks[u].started)
            => tasks[u].played # "yes"

\* C18: a load failure in a Note-On's activation leaves the event stream as
\* it was (the player's clock, the installed output, the channel table), and
\* a Note-On whose load failed and fell back has its note played on the
\* default identity's handle.
C18_FailureStep(t) ==
    /\ tasks[t].kind = "note"
    /\ \/ ~tasks[t].failed /\ tasks'[t].failed
       \/ ~tasks[t].threw /\ tasks'[t].threw

C18_StreamContinues ==
    \A t \in TaskIds :
        C18_FailureStep(t)
            => /\ running' = running
               /\ soundfontOutputRef' = soundfontOutputRef
               /\ player' = player
               /\ isPlaying' = isPlaying
               /\ channelInstrumentsRef' = channelInstrumentsRef
               /\ Len(tasks') = Len(tasks)

C18_FallbackApplied ==
    \A t \in NoteTasks :
        (tasks[t].failed /\ tasks[t].pc = "done" /\ ~tasks[t].threw)
            => /\ tasks[t].handle.inst = Piano
               /\ tasks[t].played \in {"yes", "threw"}
               /\ tasks[t].played = "yes" => tasks[t].playedOn = tasks[t].handle

C18_LoadFailureKeepsStream ==
    /\ []C18_FallbackApplied
    /\ [][C18_StreamContinues]_vars

\* A Note-On's load failed and its note sounded on the fallback; a Note-On
\* dispatched after that failure has been handled and its note triggered.
C18_Witness ==
    \E t, u \in Triggered :
        /\ tasks[t].failed
        /\ tasks[t].playedOn.inst = Piano
        /\ u > t /\ t \notin tasks[u].started

\* C19: whenever the router can handle an event that is neither Note-On,
\* Note-Off, Program Change nor End of File (Pitch Bend and Controller
\* Change included), handling it leaves the channel table and the registry
\* as they were and does not throw out of the handler.
C19_OtherEventsIgnored ==
    \A name \in EventNames :
        (running # {} /\ soundfontOutputRef)
            => LET r == midiEventHandlerOther(name)
               IN  /\ r.channels = channelInstrumentsRef
                   /\ r.notes = activeNotesRef
                   /\ ~r.threw

\* C20: when instrument.play throws for a loaded instrument, that note is
\* dropped and nothing is registered for it; the step leaves the registry,
\* the channel table, the player's clock, the installed output and every
\* other activation as they were.
C20_TriggerFailureStep ==
    \A t \in NoteTasks :
        (tasks[t].played = "no" /\ tasks'[t].played = "threw")
            => /\ activeNotesRef' = activeNotesRef
               /\ channelInstrumentsRef' = channelInstrumentsRef
               /\ running' = running
               /\ soundfontOutputRef' = soundfontOutputRef
               /\ isPlaying' = isPlaying
               /\ Len(tasks') = Len(tasks)
               /\ \A u \in TaskIds \ {t} : tasks'[u] = tasks[u]

C20_DroppedNoteNotRegistered ==
    \A t \in NoteTasks :
        tasks[t].played = "threw"
            => /\ tasks[t].handle # NoHandle
               /\ tasks[t].playedOn = NoHandle
               /\ t \notin Registered

C20_TriggerFailureDropsNote ==
    /\ []C20_DroppedNoteNotRegistered
    /\ [][C20_TriggerFailureStep]_vars

\* instrument.play threw for one Note-On; a Note-On dispatched after that
\* has been handled and its note triggered.
C20_Witness ==
    \E t \in NoteTasks, u \in Triggered :
        /\ tasks[t].played = "threw"
        /\ u > t /\ t \notin tasks[u].started

\* C21: a Note-On whose velocity is 0 makes no trigger call and starts no
\* instrument load: wherever the handler can run, it leaves the list of
\* activations as it found it, and no activation of a note carries velocity 0.
C21_ZeroVelocityNoteOnIsSilent ==
    /\ running # {} =>
          \A c \in ModelChannels, n \in NoteNames :
              midiEventHandlerNoteOn(c, n, 0).tasks = tasks
    /\ \A t \in NoteTasks : tasks[t].velocity > 0

\* The handler can run and has played a note, a Note-On of velocity 100 on channel 0 would start a
\* load (nothing is cached for the channel's instrument), one of velocity 0
\* does not.
C21_Witness ==
    /\ running # {}
    /\ NoteTasks # {}
    /\ soundfontOutputRef
    /\ Len(tasks) < taskLimit
    /\ instrumentsRef[playNoteInstrumentName(0)] = NoHandle
    /\ Len(midiEventHandlerNoteOn(0, "C4", 100).tasks) = Len(tasks) + 1
    /\ midiEventHandlerNoteOn(0, "C4", 0).tasks = tasks

\* C22: a Note-On of velocity 0 is a Note-Off for its (channel, noteName):
\* wherever the router can handle the events, both leave the same registry,
\* the same stop calls and the same activations, and a note of the pair that
\* is sounding (registered) is stopped and removed by either.
C22_ZeroVelocityNoteOnIsNoteOff ==
    \A c \in ModelChannels, n \in NoteNames :
        (running # {} /\ soundfontOutputRef)
            => LET on  == midiEventHandlerNoteOn(c, n, 0)
                   off == midiEventHandlerNoteOff(c, n)
               IN  /\ on.notes = off.notes
                   /\ on.stops = off.stops
                   /\ on.tasks = tasks
                   /\ activeNotesRef[<<c, n>>] # 0
                         => /\ on.notes[<<c, n>>] = 0
                            /\ activeNotesRef[<<c, n>>] \in on.stops

\* C23: on a fresh session, Program Change (channel 0, program 40), Note-On
\* (channel 0, C4, velocity 100) and Note-Off (channel 0, C4) dispatched back
\* to back call the loader once for violin, trigger the note once on violin
\* with gain 100/127, and stop the node the trigger returned. Activation 2 is
\* the Program Change's preload, activation 3 the note dispatched while the
\* preload was pending.
C23_Scenario ==
    /\ Len(tasks) >= 3
    /\ tasks[2].kind = "preload"
    /\ tasks[2].name = getInstrumentName(40)
    /\ tasks[2].channel = 0
    /\ tasks[3].kind = "note"
    /\ tasks[3].channel = 0
    /\ tasks[3].noteName = "C4"
    /\ tasks[3].velocity = 100
    /\ 2 \in tasks[3].started

C23_ViolinScenario ==
    C23_Scenario =>
        /\ tasks[3].name = "violin"
        /\ ~(tasks[2].loaderCalls >= 1 /\ tasks[3].loaderCalls >= 1)
        /\ (tasks[3].played = "yes" /\ tasks[3].handle.inst = "violin")
              => tasks[3].gain = << 100, 127 >>
        /\ (tasks[3].played = "yes" /\ running # {})
              => 3 \in midiEventHandlerNoteOff(0, "C4").stops

\* C24: when a session starts, every channel 0..15 holds the default
\* identity whatever the previous file's Program Changes assigned, and a
\* channel no Program Change of the session has set resolves to the default
\* identity when a note is played on it.
C24_SessionStartsWithDefaults ==
    soundfontOutputRef =>
        \A c \in DOMAIN channelInstrumentsRef :
            lastProgram[c] = "none" =>
                /\ c < NumChannels => channelInstrumentsRef[c] = "acoustic_grand_piano"
                /\ playNoteInstrumentName(c) = "acoustic_grand_piano"

\* C25: channel 9 is no special case: programChange assigns the instrument
\* of the program to channel 9, a Program Change event on channel 9 leaves
\* channel 9 what one on channel 0 leaves channel 0, and a note on channel 9
\* is played with the last assignment.
C25_Channel9NotSpecial ==
    soundfontOutputRef =>
        /\ \A p \in Programs :
              /\ programChange(9, p)[9] = getInstrumentName(p)
              /\ playerProgramChange(9, p)[9] = playerProgramChange(0, p)[0]
        /\ lastProgram[9] # "none" => playNoteInstrumentName(9) = lastProgram[9]

\* C26: within a session the channel table is changed by Program Change
\* events only: every step that changes it is the handling of a Program
\* Change; Note-On, Note-Off, End of File, the other events and the steps of
\* the loads (completion, failure, fallback) leave it as it is.
C26_OnlyProgramChangeAssigns ==
    [][channelInstrumentsRef' # channelInstrumentsRef
          => \E c \in ModelChannels, p \in Programs : ProgramChange(c, p)]_vars

\* A Program Change has assigned violin to channel 0, a note has been
\* triggered, a load has failed and the file has ended.
C26_Witness ==
    /\ channelInstrumentsRef[0] = "violin"
    /\ Triggered # {}
    /\ \E q \in TaskIds : tasks[q].failed
    /\ transport = "ended"

\* C27: the instrument cache never evicts: an identity that has a cached
\* handle has one after every step (events, loads, play, pause, stop,
\* unload and replacement of the file).
C27_CacheNeverEvicts ==
    [][\A i \in Identities :
          instrumentsRef[i] # NoHandle => instrumentsRef'[i] # NoHandle]_vars

\* Both instruments loaded under the first file are cached after the file
\* was replaced and the second one stopped.
C27_Witness ==
    /\ files = 2
    /\ midiFile = 2
    /\ transport = "stopped"
    /\ \A t \in TaskIds : tasks[t].file = 1
    /\ \A i \in Identities : instrumentsRef[i] # NoHandle

\* C28: the cache is shared across files: when an activation under an
\* earlier file has ended with the instrument itself (loaded or found
\* cached), an acquire of the same identity dispatched after that under a
\* later file is a cache hit and calls the loader not once.
C28_Pairs ==
    {<<t, u>> \in TaskIds \X TaskIds :
        /\ tasks[t].file < tasks[u].file
        /\ t \notin tasks[u].started
        /\ tasks[t].name = tasks[u].name
        /\ tasks[t].pc = "done"
        /\ tasks[t].handle.inst = tasks[t].name}

C28_CacheSharedAcrossFiles ==
    \A p \in C28_Pairs :
        /\ tasks[p[2]].hit
        /\ tasks[p[2]].loaderCalls = 0

\* A note of the second file has been played with the handle the first
\* file's load put into the cache.
C28_Witness ==
    \E p \in C28_Pairs :
        /\ ~tasks[p[1]].hit
        /\ tasks[p[2]].kind = "note"
        /\ tasks[p[2]].played = "yes"
        /\ tasks[p[2]].handle = tasks[p[1]].handle

\* C29: the End of File event sets isPlaying to false and does nothing else
\* to the session: no stop call is made, and the registry, the channel
\* table, the cache and the activations are as they were.
C29_EndOfFileOnlyEndsPlaying ==
    [][\A p \in running :
          EndOfFile(p)
              => /\ soundfontOutputRef => ~isPlaying'
                 /\ stopCalls' = stopCalls
                 /\ activeNotesRef' = activeNotesRef
                 /\ channelInstrumentsRef' = channelInstrumentsRef
                 /\ instrumentsRef' = instrumentsRef
                 /\ tasks' = tasks]_vars

\* The file has ended; a note is still registered and has received no stop,
\* channel 0 still holds violin and violin is still cached.
C29_Witness ==
    /\ transport = "ended"
    /\ ~isPlaying
    /\ Registered # {}
    /\ stopCalls = {}
    /\ channelInstrumentsRef[0] = "violin"
    /\ instrumentsRef["violin"] # NoHandle

\* C30: the velocity maps linearly to the gain: for every velocity v of
\* 1..127 instrument.play is called with gain = v/127 (127 * gain = v), the
\* gain is positive, at most 1, equal to 1 exactly for v = 127, and strictly
\* increasing in v. The gain of a note is the fraction gain[1] / gain[2].
C30_GainIsVelocityOver127 ==
    /\ \A t \in NoteTasks :
          tasks[t].played # "no" =>
              LET v == tasks[t].velocity
                  g == tasks[t].gain
              IN  /\ g[2] > 0
                  /\ 127 * g[1] = v * g[2]
                  /\ g[1] > 0
                  /\ g[1] <= g[2]
                  /\ g[1] = g[2] <=> v = 127
    /\ \A v \in MidiVelocities, w \in MidiVelocities :
          v < w => GainNumerator(v) * GainDivisor < GainNumerator(w) * GainDivisor

\* The note of velocity 100 has been triggered with the gain 100/127.
C30_Witness ==
    \E t \in NoteTasks :
        /\ tasks[t].played = "yes"
        /\ tasks[t].velocity = 100
        /\ tasks[t].gain = << 100, 127 >>

\* C31: an event delivered while no soundfont output is installed is
\* dropped: the handler returns at once, so the step changes no channel
\* assignment, starts no load, triggers no note, makes no stop call and
\* leaves isPlaying as it is, End of File included.
C31_EventStep ==
    \/ \E c \in ModelChannels, n \in NoteNames, v \in Velocities : NoteOn(c, n, v)
    \/ \E c \in ModelChannels, n \in NoteNames : NoteOff(c, n)
    \/ \E c \in ModelChannels, p \in Programs : ProgramChange(c, p)
    \/ \E p \in running : EndOfFile(p)
    \/ \E name \in EventNames : OtherEvent(name)

C31_EventsWithoutOutputDropped ==
    [][(~soundfontOutputRef /\ C31_EventStep)
          => UNCHANGED << channelInstrumentsRef, tasks, activeNotesRef, stopCalls,
                          isPlaying, instrumentsRef, transport >>]_vars

\* A player is running while no output is installed, and its file has ended
\* there: isPlaying is still true.
C31_Witness ==
    /\ ~soundfontOutputRef
    /\ running # {}
    /\ isPlaying

\* C32: every file load that starts ends: whenever isLoading is true it is
\* false again later, whether the initialisation succeeds, throws or the
\* reader reports an error.
C32_LoadingEnds == isLoading ~> ~isLoading

\* The load of the second file has ended with a failure, the loading state
\* is off.
C32_Witness ==
    /\ midiFile = 2
    /\ ~isLoading
    /\ loadPc = "idle"
    /\ error = "error"
    /\ player = 0

\* C33: when the initialisation of a selected file fails (reader.onload
\* throws, reader.onerror), the component is left in the error state: no
\* player, no soundfont output, an error message, the loading state off,
\* isPlaying false, and the player of the failed attempt is not running.
C33_InitFails ==
    \/ \E stage \in {"ac", "buffer"} : ReaderOnloadThrows(stage)
    \/ ReaderOnError

C33_FailedInitEndsInErrorState ==
    [][C33_InitFails
          => /\ player' = 0
             /\ ~soundfontOutputRef'
             /\ error' = "error"
             /\ ~isLoading'
             /\ midiFile \notin running'
             /\ ~isPlaying']_vars

\* C34: selecting an invalid file, or cancelling the selection, unloads what
\* was loaded: after the step there is no player and no soundfont output,
\* the player of the loaded file is stopped and isPlaying is false; an
\* invalid file sets the error message.
C34_RejectUnloads ==
    [][\A invalid \in BOOLEAN :
          RejectFile(invalid)
              => /\ player' = 0
                 /\ ~soundfontOutputRef'
                 /\ midiFile' = 0
                 /\ invalid => error' = "error"
                 /\ midiFile # 0
                       => /\ ~isPlaying'
                          /\ ~isLoading'
                          /\ player # 0 => player \notin running']_vars

\* The file was playing (a note has been triggered) and an invalid
\* selection has unloaded it.
C34_Witness ==
    /\ files = 1
    /\ midiFile = 0
    /\ error = "error"
    /\ Triggered # {}
    /\ player = 0
    /\ ~isPlaying
    /\ ~soundfontOutputRef
    /\ running = {}

\* C35: cache entries are write-once: once an identity has a handle in the
\* cache, no step changes the handle it maps to.
C35_CacheEntriesWriteOnce ==
    [][\A i \in Identities :
          instrumentsRef[i] # NoHandle => instrumentsRef'[i] = instrumentsRef[i]]_vars

\* C36: whenever isPlaying is true a player is loaded and it is the player
\* that was started, also when a handlePlay suspended on the audio context
\* interleaves with a file change or an unload.
C36_PlayingImpliesPlayerStarted ==
    isPlaying => (player # 0 /\ player \in running)

\* C37: the player is never started twice in a row: when handlePlay, resumed
\* after its await, calls player.play(), the clock of that player is not
\* running (a pause, a stop or the End of File came after its last play()),
\* also when Play was requested twice before the first request resumed.
C37_NoPlayOnRunningPlayer ==
    [][(HandlePlayResumed /\ Head(playPending).player # 0
                          /\ ~Head(playPending).isPlaying)
          => Head(playPending).player \notin running]_vars

\* C38: HighQualityMidiPlayer: once the URLs are provided and the audio
\* context has initialised (the initAudioContext call made for the current
\* midiUrl returned true), the component eventually leaves the loading state
\* and is ready with a player in playerRef.
C38_ContextInitialised ==
    \E t \in TaskIds :
        /\ tasks[t].kind = "init"
        /\ tasks[t].pc = "done"
        /\ ~tasks[t].failed
        /\ tasks[t].file = midiFile

C38_BecomesReady ==
    C38_ContextInitialised ~> (~isLoading /\ isReady /\ player # 0)

====
